---- MODULE Spec2Model ----
(***************************************************************************)
(* The asynchronous TMDB client of src/tmdb/api.py (class asyncTMDB): the  *)
(* transport and retry layer (_fetch_data under tenacity's retry), one     *)
(* wave of concurrent requests (_batch_fetch, asyncio.gather) and the two  *)
(* bulk operations built on them (_fetch_by_id and _fetch_pages).          *)
(*                                                                         *)
(* One behaviour is one bulk operation of one client.  Every logical       *)
(* request of the operation is a coroutine with its own position; the      *)
(* coroutines of one wave interleave freely.                               *)
(***************************************************************************)
EXTENDS Integers, Sequences, FiniteSets, TLC

(***************************************************************************)
(* Bounds of the model.                                                    *)
(***************************************************************************)
MaxLen == 3          \* longest list of identifiers / pages of one operation

(***************************************************************************)
(* Program constants.                                                      *)
(***************************************************************************)
MaxAttempts == 5     \* stop_after_attempt(5)
RetryTotal == 5      \* Retry(total=5, ...) of the synchronous client
WaitMultiplier == 1  \* wait_exponential(multiplier=1, ...)
WaitMin == 2         \* wait_exponential(min=2, ...)
WaitMax == 10        \* wait_exponential(max=10)

IDS == {1, 12}       \* identifiers the caller may pass (positive integers)
BatchSizes == {1, 2} \* batch_size values the caller may pass
FirstPages == {1, 2} \* first_page values the caller may pass

(***************************************************************************)
(* Outcomes of one physical attempt: what session.get / raise_for_status / *)
(* response.json() end in.  exc is the exception class ("none" for a 2xx   *)
(* response), status its status attribute (0 where the exception has none).*)
(***************************************************************************)
Ok(s) == [exc |-> "none", status |-> s]
ResponseError(s) == [exc |-> "ClientResponseError", status |-> s]
TimeoutError == [exc |-> "TimeoutError", status |-> 0]
ClientError == [exc |-> "ClientError", status |-> 0]
NoOutcome == [exc |-> "pending", status |-> 0]

\* every status the handlers of _fetch_data tell apart, and one plain 4xx
AllOutcomes ==
    {Ok(200)} \cup {ResponseError(s) : s \in {400, 401, 403, 404, 429, 500, 502, 503, 504}}
              \cup {TimeoutError, ClientError}

\* one outcome of each class of AllOutcomes, for the operations of several requests
CoreOutcomes ==
    {Ok(200), ResponseError(400), ResponseError(401), ResponseError(403),
     ResponseError(404), ResponseError(503), TimeoutError, ClientError}

(***************************************************************************)
(* Strings: a str is a sequence of one-character strings.                  *)
(***************************************************************************)
Digit(d) == CASE d = 0 -> "0" [] d = 1 -> "1" [] d = 2 -> "2" [] d = 3 -> "3"
              [] d = 4 -> "4" [] d = 5 -> "5" [] d = 6 -> "6" [] d = 7 -> "7"
              [] d = 8 -> "8" [] d = 9 -> "9"

DigitValue(c) == CASE c = "0" -> 0 [] c = "1" -> 1 [] c = "2" -> 2 [] c = "3" -> 3
                   [] c = "4" -> 4 [] c = "5" -> 5 [] c = "6" -> 6 [] c = "7" -> 7
                   [] c = "8" -> 8 [] c = "9" -> 9

RECURSIVE IntToStr(_)
\* f'{movie_id}' for movie_id >= 0
IntToStr(n) == IF n < 10 THEN <<Digit(n)>>
               ELSE Append(IntToStr(n \div 10), Digit(n % 10))

RECURSIVE StrToInt(_)
\* int(s) for a string of decimal digits
StrToInt(s) == IF Len(s) = 0 THEN 0
               ELSE 10 * StrToInt(SubSeq(s, 1, Len(s) - 1)) + DigitValue(s[Len(s)])

RECURSIVE LastSegment(_)
\* path.split('/')[-1]
LastSegment(s) == IF Len(s) = 0 THEN <<>>
                  ELSE IF s[Len(s)] = "/" THEN <<>>
                  ELSE Append(LastSegment(SubSeq(s, 1, Len(s) - 1)), s[Len(s)])

\* f'movie/{movie_id}'
MoviePath(id) == <<"m", "o", "v", "i", "e", "/">> \o IntToStr(id)

\* 'movie/popular'
PopularPath == <<"m", "o", "v", "i", "e", "/", "p", "o", "p", "u", "l", "a", "r">>

(***************************************************************************)
(* Values a logical request resolves to.                                   *)
(***************************************************************************)
DictVal(id, src) == [t |-> "dict", v |-> id, src |-> src]   \* a JSON object; v is its 'id' (or 'page')
IntVal(n) == [t |-> "int", v |-> n, src |-> 0]
None == [t |-> "None", v |-> 0, src |-> 0]
Unset == [t |-> "unset", v |-> 0, src |-> 0]             \* the coroutine has not returned

\* one entry of task_details: a path, and the 'page' parameter (0: the request has none)
Task(path, page) == [path |-> path, page |-> page]

VARIABLES
    is_by_id,        \* TRUE: _fetch_by_id, FALSE: _fetch_pages
    movie_ids,       \* fetch_movies_by_id's list of identifiers (<<>> for a page fetch)
    first_page,      \* _fetch_pages' first_page (0 for a fetch by id)
    last_page,       \* _fetch_pages' last_page: <<>> is None, <<n>> is n
    task_details,    \* paths / task_details: one Task per logical request
    batch_size,
    pc,              \* "init", "gather", "returned", "raised"
    i,               \* loop variable of `for i in range(0, len(...), batch_size)`
    session,         \* "none", "open", "closed"
    session_no,      \* ClientSession objects the client has created so far
    phase,           \* per position: "idle", "new", "sent", "sleep", "done", "fatal", "crashed", "cancelled"
    attempt_number,  \* per position: tenacity's attempt_number of the running call
    limiter_acquired, \* per position: times the running call entered `async with self.limiter`
    last,            \* per position: outcome of the latest finished physical attempt of a
                     \* coroutine gather has not yet handed on
    resp,            \* per position: value the coroutine returned
    warns,           \* per position: logger.warning calls made by the request
    upcoming_sleep,  \* per position: seconds of the latest backoff sleep of the running
                     \* call (0: it has not slept)
    completed,       \* positions of the latest batch, in the order their coroutines returned
    logical,         \* per position: coroutines created for it
    batches,         \* the batches handed to _batch_fetch so far
    all_results,     \* all_results / all_pages
    not_fetched,
    result           \* value returned to the caller

\* fetch_changed_ids
VARIABLES
    remote_changes,  \* the remote change log: per date, its pages (sets of entries)
    ids_type,        \* argument of the running call
    days,            \* argument of the running call
    cpc,             \* "idle", "loop" (the discovery call of an iteration runs), "data"
                     \* (the fetch of its pages runs), "returned", "raised"
    iteration,       \* iterations of `for _ in range(1, days + 1)` that are over
    cur_date,        \* day number of cur_date
    ids,
    total_pages,
    queried,         \* the dates of the discovery calls made so far, in order
    changes_warnings,\* "Couldn't fetch changes" warnings logged
    raised_exc,      \* class of the exception that left the call ("none": none did)
    returns,         \* the values returned by the calls made so far, with their arguments
    pager_calls,     \* the _fetch_pages calls the running call has started, in order
    finished,        \* how many of them have returned or raised
    folded           \* the <<date, page>> whose results went through ids.update

\* the synchronous client TMDB
VARIABLES
    spc,             \* position of fetch_movie_by_id: "idle", "get", "returned", "raised"
    movie_id,        \* argument of the running call
    retry_total,     \* `total` of the Retry object of the running session.get
    sync_requests,   \* HTTP requests the running call has sent
    limiter_calls,   \* calls counted by @limits
    sync_last,       \* what the last request ended in
    sync_seen,       \* what the requests of the call have ended in so far
    sync_result,     \* value returned to the caller
    sync_warnings    \* 'Failed to fetch data' warnings logged

sync_vars == <<spc, movie_id, retry_total, sync_requests, limiter_calls, sync_last, sync_seen,
               sync_result, sync_warnings>>

changes_vars == <<remote_changes, ids_type, days, cpc, iteration, cur_date, ids, total_pages,
                  queried, changes_warnings, raised_exc, returns, pager_calls, finished, folded>>

bulk_vars == <<is_by_id, movie_ids, first_page, last_page, task_details, batch_size, pc, i,
               session, session_no, phase, attempt_number, limiter_acquired,
               last, resp, warns, upcoming_sleep, completed, logical, batches, all_results,
               not_fetched, result>>

vars == <<bulk_vars, changes_vars, sync_vars>>

N == Len(task_details)
Pos == 1..N

SeqsUpTo(S, n) == UNION {[1..k -> S] : k \in 0..n}

\* range(a, b) as a list
Range(a, b) == [k \in 1..(IF b > a THEN b - a ELSE 0) |-> a + k - 1]

\* fetch_movies_by_id: paths = [f'movie/{movie_id}' for movie_id in movie_ids]
PathsOf(mids) == [k \in 1..Len(mids) |-> Task(MoviePath(mids[k]), 0)]

\* (mutant) the last page is left out: range(first_page, last_page)
PageTasksExclusive(first, lastp) ==
    LET lp == IF lastp = <<>> THEN first ELSE lastp[1]
        pages == Range(first, lp)
    IN  [k \in 1..Len(pages) |-> Task(PopularPath, pages[k])]

\* _fetch_pages: last_page None means first_page; one task per page of
\* range(first_page, last_page + 1)
PageTasks(first, lastp) ==
    LET lp == IF lastp = <<>> THEN first ELSE lastp[1]
        pages == Range(first, lp + 1)
    IN  [k \in 1..Len(pages) |-> Task(PopularPath, pages[k])]

(***************************************************************************)
(* _fetch_data: classification of one physical attempt.                    *)
(***************************************************************************)
\* (mutant) only 401 is raised; 403 falls through to the other 4xx
IsFatalOnly401(o) == o.exc = "ClientResponseError" /\ o.status \in {401}

\* (mutant) every 4xx except 429 is raised
IsFatalAny4xx(o) == o.exc = "ClientResponseError" /\ o.status \in {400, 401, 403, 404}

\* `raise` of the 401/403 branch: the exception leaves _fetch_data as it is
IsFatal(o) == o.exc = "ClientResponseError" /\ o.status \in {401, 403}

\* (mutant) asyncio.TimeoutError is handled like the other client errors
IsRetryableStatusOnly(o) ==
    o.exc = "ClientResponseError" /\ o.status \in {429, 500, 502, 503, 504}

\* the branches that raise RetryableError
IsRetryable(o) ==
    \/ o.exc = "ClientResponseError" /\ o.status \in {429, 500, 502, 503, 504}
    \/ o.exc = "TimeoutError"

\* the body of a 2xx response to the request: the record (page) that was asked for
Body(task, k) ==
    IF task.page = 0 THEN DictVal(StrToInt(LastSegment(task.path)), k)
    ELSE DictVal(task.page, k)

\* (mutant) a 404 is reported like every other failure, as 0
fetch_data_value_404_as_0(o, task, k, by_id) ==
    IF o.exc = "none" THEN Body(task, k)
    ELSE IF by_id THEN IntVal(0) ELSE None

\* the value _fetch_data returns from an attempt that raises neither the
\* authorization error nor RetryableError
fetch_data_value(o, task, k, by_id) ==
    IF o.exc = "none" THEN Body(task, k)
    ELSE IF o.exc = "ClientResponseError" THEN
        IF by_id THEN
            IF o.status = 404 THEN IntVal(StrToInt(LastSegment(task.path))) ELSE IntVal(0)
        ELSE None
    ELSE \* aiohttp.ClientError
        IF by_id THEN IntVal(0) ELSE None

\* logger.warning calls of that attempt
fetch_data_warnings(o) ==
    IF o.exc = "ClientResponseError" /\ o.status # 404 THEN 1
    ELSE IF o.exc = "ClientError" THEN 1
    ELSE 0

\* (mutant) the callback returns the identifier of the path for every status
retry_error_callback_id(e, task, by_id) ==
    IF by_id /\ task.path # <<>> THEN IntVal(StrToInt(LastSegment(task.path)))
    ELSE None

\* retry_error_callback: the value of the call once the attempts are used up
retry_error_callback(e, task, by_id) ==
    IF by_id /\ task.path # <<>> THEN
        IF e.status # 0 /\ e.status = 404 THEN IntVal(StrToInt(LastSegment(task.path)))
        ELSE IntVal(0)
    ELSE None

RECURSIVE Pow(_, _)
Pow(b, e) == IF e = 0 THEN 1 ELSE b * Pow(b, e - 1)

Max2(a, b) == IF a > b THEN a ELSE b
Min2(a, b) == IF a < b THEN a ELSE b

\* (mutant) the exponent is the attempt number: 2, 4, 8, 10
wait_exponential_from_1(n) ==
    Max2(Max2(0, WaitMin), Min2(WaitMultiplier * Pow(2, n), WaitMax))

\* wait_exponential(multiplier=1, min=2, max=10) after attempt n: tenacity's
\* multiplier * 2 ** (attempt_number - 1), kept within [min, max]
wait_exponential(n) ==
    Max2(Max2(0, WaitMin), Min2(WaitMultiplier * Pow(2, n - 1), WaitMax))

\* (mutant) the call stops one attempt late
StopAfterAttemptLate(n) == n > MaxAttempts

\* stop_after_attempt(5)
StopAfterAttempt(n) == n >= MaxAttempts

(***************************************************************************)
(* _batch_fetch / the loops of _fetch_by_id and _fetch_pages.              *)
(***************************************************************************)
\* (mutant) the slice runs one element too far: paths[i : i + batch_size + 1]
SliceOneTooFar(seq, from, size) ==
    LET hi == IF from + size + 1 < Len(seq) THEN from + size + 1 ELSE Len(seq)
    IN  IF from >= Len(seq) THEN <<>> ELSE SubSeq(seq, from + 1, hi)

\* paths[i : i + batch_size]
Slice(seq, from, size) ==
    LET hi == IF from + size < Len(seq) THEN from + size ELSE Len(seq)
    IN  IF from >= Len(seq) THEN <<>> ELSE SubSeq(seq, from + 1, hi)

\* the positions of task_details the batch starting at `from` holds
BatchPositions(from, size) == {from + j : j \in 1..Len(Slice(task_details, from, size))}

RECURSIVE SelectDicts(_)
\* results: the responses that are dicts, in order
SelectDicts(rs) == IF rs = <<>> THEN <<>>
                   ELSE IF Head(rs).t = "dict" THEN <<Head(rs)>> \o SelectDicts(Tail(rs))
                   ELSE SelectDicts(Tail(rs))

RECURSIVE SelectOthers(_)
\* batch_not_fetched: the responses that are not dicts, in order
SelectOthers(rs) == IF rs = <<>> THEN <<>>
                    ELSE IF Head(rs).t # "dict" THEN <<Head(rs)>> \o SelectOthers(Tail(rs))
                    ELSE SelectOthers(Tail(rs))

\* (mutant) the first record of an id is kept instead of the last
unique_results_first(rs) ==
    LET firsts == {k \in 1..Len(rs) : \A j \in 1..(k - 1) : rs[j].v # rs[k].v}
        RECURSIVE build(_)
        build(k) == IF k > Len(rs) THEN <<>>
                    ELSE IF k \in firsts THEN <<rs[k]>> \o build(k + 1)
                    ELSE build(k + 1)
    IN  build(1)

\* list({data['id']: data for data in all_results}.values()): one entry per
\* id, at the place of the id's first occurrence, holding its last occurrence
unique_results(rs) ==
    LET firsts == {k \in 1..Len(rs) : \A j \in 1..(k - 1) : rs[j].v # rs[k].v}
        lastOf(k) == CHOOSE j \in 1..Len(rs) :
                        /\ rs[j].v = rs[k].v
                        /\ \A m \in (j + 1)..Len(rs) : rs[m].v # rs[k].v
        RECURSIVE build(_)
        build(k) == IF k > Len(rs) THEN <<>>
                    ELSE IF k \in firsts THEN <<rs[lastOf(k)]>> \o build(k + 1)
                    ELSE build(k + 1)
    IN  build(1)

Returned(fetched, nf) == [set |-> TRUE, fetched |-> fetched, not_fetched |-> nf]
NoResult == [set |-> FALSE, fetched |-> <<>>, not_fetched |-> <<>>]

\* before the first call of fetch_changed_ids, the remote change log being w
ChangesInit(w) ==
    /\ remote_changes = w
    /\ ids_type = "movie" /\ days = 0
    /\ cpc = "idle" /\ iteration = 0 /\ cur_date = 0 /\ ids = {} /\ total_pages = 0
    /\ queried = <<>> /\ changes_warnings = 0 /\ raised_exc = "none" /\ returns = <<>>
    /\ pager_calls = <<>> /\ finished = 0 /\ folded = {}

BulkInit ==
    /\ is_by_id \in BOOLEAN
    /\ batch_size \in BatchSizes
    /\ IF is_by_id
       THEN /\ movie_ids \in SeqsUpTo(IDS, MaxLen)
            /\ first_page = 0
            /\ last_page = <<>>
            /\ task_details = PathsOf(movie_ids)
       ELSE /\ movie_ids = <<>>
            /\ first_page \in FirstPages
            /\ last_page \in {<<>>} \cup {<<p>> : p \in (first_page - 1)..(first_page + MaxLen - 1)}
            /\ task_details = PageTasks(first_page, last_page)
    /\ pc = "init"
    /\ i = 0
    /\ session = "none"
    /\ session_no = 0
    /\ phase = [k \in 1..Len(task_details) |-> "idle"]
    /\ attempt_number = [k \in 1..Len(task_details) |-> 0]
    /\ limiter_acquired = [k \in 1..Len(task_details) |-> 0]
    /\ last = [k \in 1..Len(task_details) |-> NoOutcome]
    /\ resp = [k \in 1..Len(task_details) |-> Unset]
    /\ warns = [k \in 1..Len(task_details) |-> 0]
    /\ upcoming_sleep = [k \in 1..Len(task_details) |-> 0]
    /\ completed = <<>>
    /\ logical = [k \in 1..Len(task_details) |-> 0]
    /\ batches = <<>>
    /\ all_results = <<>>
    /\ not_fetched = <<>>
    /\ result = NoResult

\* a bulk operation; fetch_changed_ids is not called
\* the synchronous client after construction
SyncIdle ==
    /\ spc = "idle" /\ movie_id = 0
    /\ retry_total = RetryTotal /\ sync_requests = 0 /\ limiter_calls = 0
    /\ sync_last = NoOutcome /\ sync_seen = {}
    /\ sync_result = Unset /\ sync_warnings = 0

Init == BulkInit /\ ChangesInit(<<>>) /\ SyncIdle

\* _batch_fetch up to its await: one coroutine per task of the batch, handed to gather
batch_fetch(from) ==
    /\ phase' = [k \in Pos |-> IF k \in BatchPositions(from, batch_size) THEN "new" ELSE phase[k]]
    /\ logical' = [k \in Pos |-> IF k \in BatchPositions(from, batch_size)
                                 THEN logical[k] + 1 ELSE logical[k]]
    /\ batches' = Append(batches, Slice(task_details, from, batch_size))
    /\ completed' = <<>>

\* leaving `async with session`, then the return statement
ReturnResult(results, nf) ==
    /\ session' = "closed"
    /\ pc' = "returned"
    /\ result' = IF is_by_id THEN Returned(unique_results(results), nf)
                 ELSE Returned(results, <<>>)

\* _get_session: a ClientSession is created when there is none or the one
\* there is closed; the number of sessions created after the call
get_session(s, n) == IF s \in {"none", "closed"} THEN n + 1 ELSE n

\* _fetch_by_id / _fetch_pages from the call to the first await of gather
OpStart ==
    /\ pc = "init"
    /\ i' = 0
    /\ session_no' = get_session(session, session_no)
    /\ IF N > 0
       THEN /\ session' = "open"
            /\ pc' = "gather"
            /\ batch_fetch(0)
            /\ UNCHANGED result
       ELSE /\ ReturnResult(<<>>, <<>>)
            /\ UNCHANGED <<phase, logical, batches, completed>>
    /\ UNCHANGED <<is_by_id, movie_ids, first_page, last_page, task_details, batch_size,
                   attempt_number, limiter_acquired, last, resp, warns, upcoming_sleep,
                   all_results,
                   not_fetched, changes_vars, sync_vars>>

\* (mutant) the limiter is entered once per logical request, outside the retries
limiter_enter_once(acquired, attempts) == IF attempts = 0 THEN acquired + 1 ELSE acquired

\* `async with self.limiter` in the body of the function that tenacity re-runs:
\* the count of entries after one more run of the body
limiter_enter(acquired, attempts) == acquired + 1

\* one physical attempt starts: `async with self.limiter`, then session.get
Attempt(k) ==
    /\ phase[k] \in {"new", "sleep"}
    /\ IF session = "open"
       THEN /\ phase' = [phase EXCEPT ![k] = "sent"]
            /\ attempt_number' = [attempt_number EXCEPT ![k] = @ + 1]
            /\ limiter_acquired' = [limiter_acquired EXCEPT
                                       ![k] = limiter_enter(@, attempt_number[k])]
       ELSE \* session.get on a closed session: RuntimeError leaves the coroutine
            /\ phase' = [phase EXCEPT ![k] = "crashed"]
            /\ attempt_number' = [attempt_number EXCEPT ![k] = 0]
            /\ limiter_acquired' = [limiter_acquired EXCEPT ![k] = 0]
    /\ UNCHANGED <<is_by_id, movie_ids, first_page, last_page, task_details, batch_size,
                   pc, i, session, session_no, last, resp, warns, upcoming_sleep, completed,
                   logical,
                   batches,
                   all_results, not_fetched, result, changes_vars, sync_vars>>

\* the attempt ends in outcome o: the handlers of _fetch_data, then tenacity
Respond(k, o) ==
    /\ phase[k] = "sent"
    /\ last' = [last EXCEPT ![k] = o]
    /\ IF IsFatal(o)
       THEN /\ phase' = [phase EXCEPT ![k] = "fatal"]
            /\ attempt_number' = [attempt_number EXCEPT ![k] = 0]
            /\ limiter_acquired' = [limiter_acquired EXCEPT ![k] = 0]
            /\ upcoming_sleep' = [upcoming_sleep EXCEPT ![k] = 0]
            /\ UNCHANGED <<resp, warns>>
       ELSE IF IsRetryable(o)
       THEN IF StopAfterAttempt(attempt_number[k])
            THEN /\ phase' = [phase EXCEPT ![k] = "done"]
                 /\ attempt_number' = [attempt_number EXCEPT ![k] = 0]
                 /\ limiter_acquired' = [limiter_acquired EXCEPT ![k] = 0]
                 /\ resp' = [resp EXCEPT ![k] = retry_error_callback(o, task_details[k], is_by_id)]
                 /\ warns' = [warns EXCEPT ![k] = @ + 1]
                 /\ upcoming_sleep' = [upcoming_sleep EXCEPT ![k] = 0]
            ELSE /\ phase' = [phase EXCEPT ![k] = "sleep"]
                 /\ upcoming_sleep' = [upcoming_sleep EXCEPT
                                          ![k] = wait_exponential(attempt_number[k])]
                 /\ UNCHANGED <<attempt_number, limiter_acquired, resp, warns>>
       ELSE /\ phase' = [phase EXCEPT ![k] = "done"]
            /\ attempt_number' = [attempt_number EXCEPT ![k] = 0]
            /\ limiter_acquired' = [limiter_acquired EXCEPT ![k] = 0]
            /\ resp' = [resp EXCEPT ![k] = fetch_data_value(o, task_details[k], k, is_by_id)]
            /\ warns' = [warns EXCEPT ![k] = @ + fetch_data_warnings(o)]
            /\ upcoming_sleep' = [upcoming_sleep EXCEPT ![k] = 0]
    /\ completed' = (IF phase'[k] = "done" THEN Append(completed, k) ELSE completed)
    /\ UNCHANGED <<is_by_id, movie_ids, first_page, last_page, task_details, batch_size,
                   pc, i, session, session_no, logical, batches, all_results, not_fetched,
                   result,
                   changes_vars, sync_vars>>

\* (mutant) the responses of the batch that starts after position `from`, in
\* the order the coroutines returned
gather_as_completed(from) ==
    [j \in 1..Len(Slice(task_details, from, batch_size)) |-> resp[completed[j]]]

\* what `await asyncio.gather(*tasks)` evaluates to for the batch that starts
\* after position `from`: the values of the coroutines in the order of tasks
gather(from) ==
    [j \in 1..Len(Slice(task_details, from, batch_size)) |-> resp[from + j]]

\* (mutant) gather returns as soon as one coroutine of the batch is done
CollectFirstCompleted ==
    /\ pc = "gather"
    /\ \E k \in BatchPositions(i, batch_size) : phase[k] = "done"
    /\ LET responses == [j \in 1..Len(Slice(task_details, i, batch_size)) |-> resp[i + j]]
           results == all_results \o SelectDicts(responses)
           nf == IF is_by_id THEN not_fetched \o SelectOthers(responses) ELSE not_fetched
       IN  /\ all_results' = results
           /\ not_fetched' = nf
           /\ i' = i + batch_size
           /\ IF i + batch_size < N
              THEN /\ batch_fetch(i + batch_size)
                   /\ UNCHANGED <<pc, session, result>>
              ELSE /\ ReturnResult(results, nf)
                   /\ UNCHANGED <<phase, logical, batches, completed>>
    /\ last' = [k \in Pos |-> IF k \in BatchPositions(i, batch_size) THEN NoOutcome ELSE last[k]]
    /\ UNCHANGED <<is_by_id, movie_ids, first_page, last_page, task_details, batch_size,
                   attempt_number, limiter_acquired, resp, warns, upcoming_sleep, session_no,
                   changes_vars, sync_vars>>

\* gather returns the responses of the batch: the rest of _batch_fetch, the
\* extends, and the loop up to the next await (or the return)
Collect ==
    /\ pc = "gather"
    /\ \A k \in BatchPositions(i, batch_size) : phase[k] = "done"
    /\ LET responses == gather(i)
           results == all_results \o SelectDicts(responses)
           nf == IF is_by_id THEN not_fetched \o SelectOthers(responses) ELSE not_fetched
       IN  /\ all_results' = results
           /\ not_fetched' = nf
           /\ i' = i + batch_size
           /\ IF i + batch_size < N
              THEN /\ batch_fetch(i + batch_size)
                   /\ UNCHANGED <<pc, session, result>>
              ELSE /\ ReturnResult(results, nf)
                   /\ UNCHANGED <<phase, logical, batches, completed>>
    /\ last' = [k \in Pos |-> IF k \in BatchPositions(i, batch_size) THEN NoOutcome ELSE last[k]]
    /\ UNCHANGED <<is_by_id, movie_ids, first_page, last_page, task_details, batch_size,
                   attempt_number, limiter_acquired, resp, warns, upcoming_sleep, session_no,
                   changes_vars, sync_vars>>

\* asyncio.run's shutdown (_cancel_all_tasks): every coroutine that has not
\* ended is cancelled; f[k] becomes v for each of them
cancel_all_tasks(f, v) ==
    [k \in DOMAIN f |-> IF phase[k] \in {"new", "sent", "sleep"} THEN v ELSE f[k]]

\* gather raises the authorization error of one of its coroutines, without
\* cancelling the others; the exception leaves `async with session` and the
\* operation, and run_sync hands it to the caller: from asyncio.run, which
\* first cancels the coroutines left (shutdown), or from
\* loop.run_until_complete, which leaves them pending in the loop
Propagate ==
    /\ pc = "gather"
    /\ \E k \in BatchPositions(i, batch_size) : phase[k] = "fatal"
    /\ pc' = "raised"
    /\ session' = "closed"
    /\ \E shutdown \in BOOLEAN :
          IF shutdown
          THEN /\ phase' = cancel_all_tasks(phase, "cancelled")
               /\ attempt_number' = cancel_all_tasks(attempt_number, 0)
               /\ limiter_acquired' = cancel_all_tasks(limiter_acquired, 0)
               /\ upcoming_sleep' = cancel_all_tasks(upcoming_sleep, 0)
          ELSE UNCHANGED <<phase, attempt_number, limiter_acquired, upcoming_sleep>>
    /\ UNCHANGED <<is_by_id, movie_ids, first_page, last_page, task_details, batch_size,
                   i, last, resp, warns, completed, logical, session_no,
                   batches, all_results, not_fetched, result, changes_vars, sync_vars>>

Next ==
    \/ OpStart
    \/ \E k \in Pos : Attempt(k)
    \/ \E k \in Pos : \E o \in CoreOutcomes : Respond(k, o)
    \/ Collect
    \/ Propagate

Spec == Init /\ [][Next]_vars

(***************************************************************************)
(* The caller goes on using the client after the operation handed control  *)
(* back: another bulk operation runs on the same client and event loop.    *)
(* Of that operation only its session is followed: _get_session at its     *)
(* start, the end of its `async with` at its end; while it runs the loop    *)
(* also runs whatever the first operation left pending.                    *)
(***************************************************************************)
NextOperationStart ==
    /\ pc \in {"returned", "raised"}
    /\ pc' = "next_gather"
    /\ session_no' = get_session(session, session_no)
    /\ session' = "open"
    /\ UNCHANGED <<is_by_id, movie_ids, first_page, last_page, task_details, batch_size,
                   i, phase, attempt_number, limiter_acquired, last, resp, warns,
                   upcoming_sleep, completed, logical, batches, all_results, not_fetched,
                   result, changes_vars, sync_vars>>

NextOperationEnd ==
    /\ pc = "next_gather"
    /\ pc' = "next_ended"
    /\ session' = "closed"
    /\ UNCHANGED <<is_by_id, movie_ids, first_page, last_page, task_details, batch_size,
                   i, session_no, phase, attempt_number, limiter_acquired, last, resp, warns,
                   upcoming_sleep, completed, logical, batches, all_results, not_fetched,
                   result, changes_vars, sync_vars>>

NextTwoOps ==
    \/ OpStart
    \/ \E k \in Pos : Attempt(k)
    \/ \E k \in Pos : \E o \in CoreOutcomes : Respond(k, o)
    \/ Collect
    \/ Propagate
    \/ NextOperationStart
    \/ NextOperationEnd

SpecTwoOps == Init /\ [][NextTwoOps]_vars

(***************************************************************************)
(* One logical request (a list of one identifier, or one page) against     *)
(* every outcome of AllOutcomes.                                           *)
(***************************************************************************)
InitOne == Init /\ Len(task_details) = 1

NextOne ==
    \/ OpStart
    \/ \E k \in Pos : Attempt(k)
    \/ \E k \in Pos : \E o \in AllOutcomes : Respond(k, o)
    \/ Collect
    \/ Propagate

SpecOne == InitOne /\ [][NextOne]_vars

(***************************************************************************)
(* One logical request against a remote that answers 503 or 200 only.      *)
(***************************************************************************)
Next503 ==
    \/ OpStart
    \/ \E k \in Pos : Attempt(k)
    \/ \E k \in Pos : \E o \in {ResponseError(503), Ok(200)} : Respond(k, o)
    \/ Collect

Spec503 == InitOne /\ [][Next503]_vars

(***************************************************************************)
(* Operations whose requests meet failures other than 401/403 only, under  *)
(* a fair schedule: a sent request gets its response or its timeout        *)
(* (ClientTimeout(total=20)), a sleep ends, and the event loop runs every   *)
(* task that is ready.                                                     *)
(***************************************************************************)
NonFatalOutcomes == CoreOutcomes \ {ResponseError(401), ResponseError(403)}

NextScattered ==
    \/ OpStart
    \/ \E k \in Pos : Attempt(k)
    \/ \E k \in Pos : \E o \in NonFatalOutcomes : Respond(k, o)
    \/ Collect

SpecScattered == Init /\ [][NextScattered]_vars /\ WF_vars(NextScattered)

(***************************************************************************)
(* fetch_changed_ids.  A date is a day number (cur_date.date()), one day is *)
(* 1.  Each of the two run_sync(_fetch_pages(...)) calls of an iteration is *)
(* one step: the call ends with the list of the pages that were fetched, in *)
(* increasing page order, or with the authorization error.                  *)
(***************************************************************************)
MaxDays == 3        \* largest `days` a call is given
Today == 10         \* the day datetime.now() falls on
MaxPageNo == 500    \* min(total_pages, 500)

Dates == (Today - MaxDays + 1)..Today
IdsTypes == {"movie", "person", "show"}

\* one entry of a page's 'results'
Entry(id, adult) == [id |-> id, adult |-> adult]

\* the change log of one date: the 'total_pages' the remote reports and the
\* 'results' of its first pages (the pages after them have empty results)
Log(total, pages) == [total_pages |-> total, pages |-> pages]

\* the change logs date d may have: no page, one page, two pages, and (for the
\* day of the call) more pages than the cap; entry 1 is in the logs of several
\* dates, the others belong to the date
DayLogs(d) ==
    { Log(0, <<>>),
      Log(1, <<{Entry(d, FALSE), Entry(100 + d, TRUE)}>>),
      Log(2, <<{Entry(d, FALSE)}, {Entry(1, FALSE), Entry(100 + d, TRUE)}>>) }
    \cup (IF d = Today
          THEN {Log(MaxPageNo + 1, <<{Entry(d, FALSE)}, {Entry(100 + d, TRUE)}>>)}
          ELSE {})

Worlds == {w \in [Dates -> UNION {DayLogs(d) : d \in Dates}] : \A d \in Dates : w[d] \in DayLogs(d)}

\* the outcomes of a fetch of pages 1..n that are followed: which pages were
\* fetched (every subset for few pages; all, none, the first only, all but the
\* first for many)
GotChoices(n) ==
    IF n <= 2 THEN SUBSET (1..n)
    ELSE {1..n, {}, {1}, (1..n) \ {1}}

\* the JSON object the remote answers for page p of date d; has_total FALSE: the
\* object has no 'total_pages'
PageOf(d, p, has_total) ==
    [page |-> p,
     total_pages |-> IF has_total THEN <<remote_changes[d].total_pages>> ELSE <<>>,
     results |-> IF p \in 1..Len(remote_changes[d].pages) THEN remote_changes[d].pages[p]
                 ELSE {}]

RECURSIVE fetch_pages(_, _, _, _, _)
\* what _fetch_pages(first_page, last_page, change_dates) returns when the
\* requests of the pages in `got` are the ones that produced a page: these
\* pages in increasing page order (the range is halved to keep the recursion
\* shallow)
fetch_pages(d, first, lastp, got, has_total) ==
    IF first > lastp THEN <<>>
    ELSE IF first = lastp
    THEN (IF first \in got THEN <<PageOf(d, first, has_total)>> ELSE <<>>)
    ELSE LET mid == (first + lastp) \div 2
         IN  fetch_pages(d, first, mid, got, has_total)
             \o fetch_pages(d, mid + 1, lastp, got, has_total)

\* (mutant) the set is replaced by the ids of the day
update_replaces(s, new) == new

\* ids.update(...)
update(s, new) == s \cup new

\* (mutant) the adult flag is not looked at
changed_ids_unfiltered(t, data) ==
    LET entries == UNION {data[j].results : j \in 1..Len(data)}
    IN  IF t \in {"movie", "person"} THEN {e.id : e \in entries} ELSE {}

\* the ids the two generator expressions hand to ids.update
changed_ids(t, data) ==
    LET entries == UNION {data[j].results : j \in 1..Len(data)}
    IN  IF t = "movie" THEN {e.id : e \in {x \in entries : ~ x.adult}}
        ELSE IF t = "person" THEN {e.id : e \in entries}
        ELSE {}

\* (mutant) every ids_type is let through
IsValidIdsTypeAny(t) == TRUE

\* ids_type in ('movie', 'person')
IsValidIdsType(t) == t \in {"movie", "person"}

\* (mutant) the fetch of the pages is not capped
LastPageUncapped(total) == total

\* last_page=min(total_pages, 500)
LastPage(total) == Min2(total, MaxPageNo)

\* one call of _fetch_pages for date d, as it is started
DiscoveryCall(d) == [kind |-> "discovery", date |-> d, first_page |-> 1, last_page |-> 1]
DataCall(d, total) == [kind |-> "data", date |-> d, first_page |-> 1, last_page |-> LastPage(total)]

\* earliest_date = (cur_date + timedelta(days=1)).date()
earliest_date(d) == d + 1

\* (mutant) the loop goes on without waiting for the call it started
EndIterationNoWait(d, s) ==
    /\ iteration' = iteration + 1
    /\ cur_date' = d
    /\ ids' = s
    /\ finished' = finished
    /\ IF iteration + 1 < days
       THEN /\ cpc' = "loop"
            /\ pager_calls' = Append(pager_calls, DiscoveryCall(d))
            /\ UNCHANGED returns
       ELSE /\ cpc' = "returned"
            /\ returns' = Append(returns, [ids_type |-> ids_type, days |-> days, ids |-> s,
                                           earliest_date |-> earliest_date(d)])
            /\ UNCHANGED pager_calls

\* the end of an iteration with the cursor at d and the set s: the next
\* iteration, or the return after the last one
EndIteration(d, s) ==
    /\ iteration' = iteration + 1
    /\ cur_date' = d
    /\ ids' = s
    /\ finished' = finished + 1
    /\ IF iteration + 1 < days
       THEN /\ cpc' = "loop"
            /\ pager_calls' = Append(pager_calls, DiscoveryCall(d))
            /\ UNCHANGED returns
       ELSE /\ cpc' = "returned"
            /\ returns' = Append(returns, [ids_type |-> ids_type, days |-> days, ids |-> s,
                                           earliest_date |-> earliest_date(d)])
            /\ UNCHANGED pager_calls

\* the call, up to the start of the first discovery call (or the return, or
\* the ValueError)
CallChanged(t, d) ==
    /\ cpc \in {"idle", "returned"}
    /\ ids_type' = t
    /\ days' = d
    /\ queried' = <<>>
    /\ changes_warnings' = 0
    /\ finished' = 0
    /\ folded' = {}
    /\ IF ~ IsValidIdsType(t)
       THEN /\ cpc' = "raised"
            /\ raised_exc' = "ValueError"
            /\ pager_calls' = <<>>
            /\ UNCHANGED <<iteration, cur_date, ids, returns>>
       ELSE /\ raised_exc' = "none"
            /\ iteration' = 0
            /\ cur_date' = Today
            /\ ids' = {}
            /\ IF d >= 1
               THEN /\ cpc' = "loop"
                    /\ pager_calls' = <<DiscoveryCall(Today)>>
                    /\ UNCHANGED returns
               ELSE /\ cpc' = "returned"
                    /\ pager_calls' = <<>>
                    /\ returns' = Append(returns, [ids_type |-> t, days |-> d, ids |-> {},
                                                   earliest_date |-> earliest_date(Today)])
    /\ UNCHANGED <<remote_changes, total_pages, bulk_vars, sync_vars>>

\* the discovery call returns: `[0]` of its list, the test of total_pages, and
\* either the warning and `continue` or the start of the fetch of the pages
Discover(got, has_total) ==
    /\ cpc = "loop"
    /\ queried' = Append(queried, cur_date)
    /\ LET pages == fetch_pages(cur_date, 1, 1, got, has_total)
       IN  IF pages = <<>>
           THEN \* IndexError: list index out of range
                /\ cpc' = "raised"
                /\ raised_exc' = "IndexError"
                /\ finished' = finished + 1
                /\ UNCHANGED <<iteration, cur_date, ids, total_pages, changes_warnings, returns,
                               pager_calls>>
           ELSE IF pages[1].total_pages = <<>>
           THEN \* logger.warning, continue
                /\ changes_warnings' = changes_warnings + 1
                /\ EndIteration(cur_date, ids)
                /\ UNCHANGED <<total_pages, raised_exc>>
           ELSE /\ total_pages' = pages[1].total_pages[1]
                /\ cpc' = "data"
                /\ finished' = finished + 1
                /\ pager_calls' = Append(pager_calls, DataCall(cur_date, pages[1].total_pages[1]))
                /\ UNCHANGED <<iteration, cur_date, ids, changes_warnings, raised_exc, returns>>
    /\ UNCHANGED <<remote_changes, ids_type, days, folded, bulk_vars, sync_vars>>

\* the discovery call raises the authorization error
DiscoverRaises ==
    /\ cpc = "loop"
    /\ queried' = Append(queried, cur_date)
    /\ cpc' = "raised"
    /\ raised_exc' = "ClientResponseError"
    /\ finished' = finished + 1
    /\ UNCHANGED <<remote_changes, ids_type, days, iteration, cur_date, ids, total_pages,
                   changes_warnings, returns, pager_calls, folded, bulk_vars, sync_vars>>

\* the fetch of pages 1..min(total_pages, 500) returns: ids.update, the cursor
\* moves back one day
FetchData(got) ==
    /\ cpc = "data"
    /\ got \subseteq 1..LastPage(total_pages)
    /\ LET data == fetch_pages(cur_date, 1, LastPage(total_pages), got, TRUE)
       IN  EndIteration(cur_date - 1, update(ids, changed_ids(ids_type, data)))
    /\ folded' = folded \cup {<<cur_date, p>> : p \in got}
    /\ UNCHANGED <<remote_changes, ids_type, days, total_pages, queried, changes_warnings,
                   raised_exc, bulk_vars, sync_vars>>

\* the fetch of the pages raises the authorization error
FetchDataRaises ==
    /\ cpc = "data"
    /\ cpc' = "raised"
    /\ raised_exc' = "ClientResponseError"
    /\ finished' = finished + 1
    /\ UNCHANGED <<remote_changes, ids_type, days, iteration, cur_date, ids, total_pages,
                   queried, changes_warnings, returns, pager_calls, folded, bulk_vars, sync_vars>>

\* no bulk operation of its own is followed; the remote change log is any of Worlds
InitChanges ==
    /\ BulkInit /\ ~ is_by_id /\ N = 0 /\ first_page = 1 /\ batch_size = 1
    /\ \E w \in Worlds : ChangesInit(w)
    /\ SyncIdle

\* one call, every outcome of its requests
NextChanges ==
    \/ \E t \in IdsTypes : \E d \in 0..MaxDays : cpc = "idle" /\ CallChanged(t, d)
    \/ \E got \in SUBSET {1} : \E has_total \in BOOLEAN : Discover(got, has_total)
    \/ DiscoverRaises
    \/ \E got \in GotChoices(LastPage(total_pages)) : FetchData(got)
    \/ FetchDataRaises

SpecChanges == InitChanges /\ [][NextChanges]_vars

\* two calls in a row on the same day, every request of which yields its page
NextNoFailure ==
    \/ \E t \in IdsTypes : \E d \in 0..MaxDays : Len(returns) < 2 /\ CallChanged(t, d)
    \/ Discover({1}, TRUE)
    \/ FetchData(1..LastPage(total_pages))

SpecNoFailure == InitChanges /\ [][NextNoFailure]_vars

(***************************************************************************)
(* The synchronous client TMDB: fetch_movie_by_id -> _fetch_by_id ->       *)
(* _fetch_data.  session.get runs urllib3's retry loop inside the mounted  *)
(* HTTPAdapter; the decorators of _fetch_data count the call before its    *)
(* body runs.  An outcome ResponseError(s) is here a response of status s  *)
(* (raise_for_status turns it into HTTPError), TimeoutError a timeout and  *)
(* ClientError a connection error.                                         *)
(***************************************************************************)
status_forcelist == {429, 500, 502, 503, 504}

\* does the Retry object retry after a request that ended in o
is_retry(o) ==
    \/ o.exc \in {"TimeoutError", "ClientError"}
    \/ o.exc = "ClientResponseError" /\ o.status \in status_forcelist

\* Retry.is_exhausted, looked at after `total` was decremented
is_exhausted(total) == total < 0

\* the test under which the except clause of _fetch_data re-raises
sync_is_fatal(o) == o.exc = "ClientResponseError" /\ o.status \in {401, 403}

\* fetch_movie_by_id(id) up to the first request of session.get
fetch_movie_by_id(id) ==
    /\ spc = "idle"
    /\ movie_id' = id
    /\ limiter_calls' = limiter_calls + 1
    /\ retry_total' = RetryTotal
    /\ sync_requests' = 1
    /\ spc' = "get"
    /\ UNCHANGED <<sync_last, sync_seen, sync_result, sync_warnings, bulk_vars, changes_vars>>

\* the request in flight ends in o: urllib3 sends it again, or session.get
\* ends and the rest of _fetch_data runs
urlopen(o) ==
    /\ spc = "get"
    /\ sync_last' = o
    /\ sync_seen' = sync_seen \cup {o}
    /\ IF is_retry(o) /\ ~ is_exhausted(retry_total - 1)
       THEN /\ retry_total' = retry_total - 1
            /\ sync_requests' = sync_requests + 1
            /\ UNCHANGED <<spc, sync_result, sync_warnings>>
       ELSE /\ retry_total' = (IF is_retry(o) THEN retry_total - 1 ELSE retry_total)
            /\ UNCHANGED sync_requests
            /\ IF o = Ok(200)
               THEN /\ spc' = "returned"
                    /\ sync_result' = DictVal(movie_id, sync_requests)
                    /\ UNCHANGED sync_warnings
               ELSE /\ sync_warnings' = sync_warnings + 1
                    /\ IF sync_is_fatal(o)
                       THEN spc' = "raised" /\ UNCHANGED sync_result
                       ELSE spc' = "returned" /\ sync_result' = None
    /\ UNCHANGED <<movie_id, limiter_calls, bulk_vars, changes_vars>>

InitSync ==
    /\ BulkInit /\ ~ is_by_id /\ N = 0 /\ first_page = 1 /\ batch_size = 1
    /\ ChangesInit(<<>>)
    /\ SyncIdle

NextSync ==
    \/ \E id \in IDS : fetch_movie_by_id(id)
    \/ \E o \in AllOutcomes : urlopen(o)

SpecSync == InitSync /\ [][NextSync]_vars

(***************************************************************************)
(* Properties.                                                             *)
(***************************************************************************)
Values(seq) == {seq[k].v : k \in 1..Len(seq)}
Elems(seq) == {seq[k] : k \in 1..Len(seq)}
CeilDiv(a, b) == (a + b - 1) \div b

RECURSIVE Flatten(_)
Flatten(ss) == IF ss = <<>> THEN <<>> ELSE Head(ss) \o Flatten(Tail(ss))

FatalOutcomes == {ResponseError(401), ResponseError(403)}
RetryableOutcomes == {ResponseError(429), ResponseError(500), ResponseError(502),
                      ResponseError(503), ResponseError(504), TimeoutError}

\* C2: when a bulk fetch by id returns, the ids of the fetched records together
\* with the not-fetched entries are exactly the distinct input identifiers.
C2_Claim ==
    (pc = "returned" /\ is_by_id) =>
        Values(result.fetched) \cup Values(result.not_fetched) = Elems(movie_ids)

\* C3: the batches handed to _batch_fetch are the consecutive slices of at most
\* batch_size tasks of the input, in order; no position ever gets a second
\* logical request; and an operation that returns has issued ceil(N / B)
\* batches whose concatenation is the input, one logical request per position.
C3_Batches ==
    /\ \A b \in 1..Len(batches) :
          /\ Len(batches[b]) >= 1
          /\ Len(batches[b]) <= batch_size
          /\ \A j \in 1..Len(batches[b]) :
                /\ (b - 1) * batch_size + j <= N
                /\ batches[b][j] = task_details[(b - 1) * batch_size + j]
          /\ b < Len(batches) => Len(batches[b]) = batch_size
    /\ \A k \in Pos : logical[k] = (IF k <= Len(batches) * batch_size THEN 1 ELSE 0)
    /\ pc = "returned" =>
          /\ Len(batches) = CeilDiv(N, batch_size)
          /\ Flatten(batches) = task_details
          /\ \A k \in Pos : logical[k] = 1

\* C3 witness: three tasks in batches of two were fetched in two batches, the
\* second one short.
C3_Witness ==
    /\ pc = "returned" /\ N = 3 /\ batch_size = 2
    /\ Len(batches) = 2 /\ Len(batches[2]) = 1

\* C8: the fetched collection of a bulk fetch by id holds one record per id that
\* produced a record, and it is the record of the last position of the input
\* that produced one for that id.
C8_LastWins ==
    (pc = "returned" /\ is_by_id) =>
        LET f == result.fetched
            produced(id) == {k \in Pos : resp[k].t = "dict" /\ resp[k].v = id}
        IN  /\ \A a, b \in 1..Len(f) : a # b => f[a].v # f[b].v
            /\ \A k \in Pos : resp[k].t = "dict" => resp[k].v \in Values(f)
            /\ \A a \in 1..Len(f) :
                  /\ f[a].t = "dict"
                  /\ f[a].src \in produced(f[a].v)
                  /\ \A k \in produced(f[a].v) : k <= f[a].src

\* C8 witness: identifier 1 was asked for at positions 1 and 3, in two different
\* batches, both answered; the record of position 3 is the one kept.
C8_Witness ==
    /\ pc = "returned" /\ is_by_id /\ batch_size = 2
    /\ movie_ids = <<1, 12, 1>>
    /\ result.fetched = <<DictVal(1, 3), DictVal(12, 2)>>

\* the positions of the batch gather is waiting for
Current == IF pc \in {"gather", "raised"} THEN BatchPositions(i, batch_size) ELSE {}
GotFatal(k) == last[k] \in FatalOutcomes
\* the step is the end of a physical attempt of position k, in outcome o (a
\* cancelled attempt has no outcome)
Ended(k, o) ==
    phase[k] = "sent" /\ phase'[k] \notin {"sent", "cancelled"} /\ last'[k] = o

\* C4: once a request of the operation has been answered 401 or 403, the
\* operation returns no value and starts no further batch (it can only raise):
\* every later step leaves the batches and the result alone; and the error is
\* not swallowed, the raise is what the operation can do next.
C4_FatalAborts ==
    /\ [][(\E k \in Pos : GotFatal(k)) =>
             /\ pc' # "returned"
             /\ result' = NoResult
             /\ batches' = batches
             /\ logical' = logical
             /\ all_results' = all_results /\ not_fetched' = not_fetched]_vars
    /\ []((\E k \in Pos : GotFatal(k)) =>
             /\ pc \in {"gather", "raised"}
             /\ result = NoResult
             /\ pc = "gather" => ENABLED Propagate)

\* C4 witness: a first batch was fetched and collected, a request of the second
\* batch was answered 403, the operation raised and the third task never started.
C4_Witness ==
    /\ pc = "raised" /\ N = 3 /\ batch_size = 1
    /\ Len(all_results) = 1
    /\ last[2] = ResponseError(403)
    /\ phase[3] = "idle"
    /\ result = NoResult

\* C5: an operation raises only when one of its requests was answered 401 or 403.
\* Without that, no per-item failure stops anything: every unresolved request of
\* the running batch can take its next step whatever its siblings ended in, a
\* batch whose requests are all resolved is collected, and the operation returns
\* both collections after every batch was issued and every request resolved.
C5_Resilient ==
    /\ pc = "raised" => \E k \in Pos : GotFatal(k)
    /\ (pc = "gather" /\ ~ \E k \in Pos : GotFatal(k)) =>
          /\ \A k \in Current :
                /\ phase[k] \in {"new", "sent", "sleep", "done"}
                /\ phase[k] \in {"new", "sleep"} => ENABLED Attempt(k)
                /\ phase[k] = "sent" => \A o \in CoreOutcomes : ENABLED Respond(k, o)
          /\ (\A k \in Current : phase[k] = "done") => ENABLED Collect
    /\ pc = "returned" =>
          /\ result.set
          /\ \A k \in Pos : phase[k] = "done" /\ ~ GotFatal(k)
          /\ Len(batches) = CeilDiv(N, batch_size)
          /\ is_by_id => Len(result.not_fetched) = Cardinality({k \in Pos : resp[k].t # "dict"})

\* C5 witness: a fetch by id of three identifiers in batches of two returned with
\* two entries in the not-fetched list and one record: failures in the first
\* batch stopped neither its sibling nor the second batch.
C5_Witness ==
    /\ pc = "returned" /\ is_by_id /\ N = 3 /\ batch_size = 2
    /\ resp[1].t = "int" /\ resp[2].t = "dict" /\ resp[3].t = "int"
    /\ Len(result.fetched) = 1 /\ Len(result.not_fetched) = 2

\* C6: with a remote that answers 503 or 200 only, a request whose fourth
\* attempt is the first one answered 200 (three attempts answered 503 before it)
\* returns the body of that answer and has recorded exactly 3 warnings, one per
\* failed attempt.
C6_Claim ==
    [][\A k \in Pos :
          (attempt_number[k] = 4 /\ Ended(k, Ok(200)))
          => (resp'[k] = Body(task_details[k], k) /\ warns'[k] = 3)]_vars

\* C7: an identifier-keyed request answered 404 is over with that attempt (no
\* further attempt, no exception): it resolves to the identifier of its path;
\* gather hands that identifier to the not-fetched list and no record of that
\* position to the fetched ones.
C7_NotFound ==
    /\ [][\A k \in Pos :
            (is_by_id /\ Ended(k, ResponseError(404))) =>
               /\ phase'[k] = "done"
               /\ resp'[k] = IntVal(movie_ids[k])
               /\ warns'[k] = warns[k]]_vars
    /\ [][\A k \in Pos : phase[k] = "done" =>
               (phase'[k] = "done" /\ resp'[k] = resp[k] /\ attempt_number'[k] = 0)]_vars
    /\ [](is_by_id =>
            LET collected == {k \in Pos : phase[k] = "done" /\ k \notin Current}
            IN  /\ \A r \in Elems(all_results) : r.src \in collected /\ resp[r.src] = r
                /\ Len(not_fetched) = Cardinality({k \in collected : resp[k].t # "dict"})
                /\ \A k \in collected : resp[k].t # "dict" => resp[k] \in Elems(not_fetched)
                /\ pc = "returned" =>
                      /\ result.not_fetched = not_fetched
                      /\ Elems(result.fetched) \subseteq Elems(all_results))

\* C7 witness: identifier 12 was answered 404 and identifier 1 was fetched; the
\* operation returned 12 as the one not-fetched entry.
C7_Witness ==
    /\ pc = "returned" /\ is_by_id
    /\ movie_ids = <<12, 1>>
    /\ result.not_fetched = <<IntVal(12)>>
    /\ result.fetched = <<DictVal(1, 2)>>

\* C9: a logical request never makes more than 5 physical attempts; it makes a
\* further attempt only after an attempt that ended in 429, 500, 502, 503, 504
\* or a timeout; and each of these outcomes before the fifth attempt leads to a
\* further attempt, the request giving up exactly at the fifth.
C9_Attempts ==
    /\ [](\A k \in Pos : attempt_number[k] <= 5)
    /\ [][\A k \in Pos :
            (attempt_number'[k] > attempt_number[k] /\ attempt_number[k] >= 1) =>
               (last[k] \in RetryableOutcomes /\ attempt_number'[k] = attempt_number[k] + 1)]_vars
    /\ [][\A k \in Pos :
            (\E o \in RetryableOutcomes : Ended(k, o)) =>
               IF attempt_number[k] < 5
               THEN phase'[k] = "sleep" /\ attempt_number'[k] = attempt_number[k]
               ELSE attempt_number[k] = 5 /\ phase'[k] = "done"]_vars
    /\ [](\A k \in Pos : (phase[k] = "sleep" /\ session = "open") => ENABLED Attempt(k))

\* C9 witness: the fifth attempt of a request ended in 504 and the request gave up.
C9_Witness ==
    /\ phase[1] = "done" /\ last[1] = ResponseError(504)
    /\ resp[1].t # "dict" /\ warns[1] = 1

\* C10 (as claimed): an attempt before the fifth that ends in a timeout or in a
\* connection failure is followed by the backoff sleep and a further attempt.
C10_Claim ==
    [][\A k \in Pos :
          (attempt_number[k] < 5 /\ (Ended(k, TimeoutError) \/ Ended(k, ClientError)))
          => phase'[k] = "sleep"]_vars

\* C10 (amended): a timeout before the fifth attempt is followed by the backoff
\* sleep and a further attempt; a connection failure (aiohttp.ClientError) is not
\* retried: the request resolves with that attempt, to 0 when it is
\* identifier-keyed and to None otherwise, with one warning.
C10_TimeoutRetried ==
    /\ [][\A k \in Pos :
            Ended(k, TimeoutError) =>
               IF attempt_number[k] < 5
               THEN phase'[k] = "sleep" /\ resp'[k] = Unset
               ELSE phase'[k] = "done"]_vars
    /\ [][\A k \in Pos :
            Ended(k, ClientError) =>
               /\ phase'[k] = "done"
               /\ resp'[k] = (IF is_by_id THEN IntVal(0) ELSE None)
               /\ warns'[k] = warns[k] + 1]_vars
    /\ [](\A k \in Pos : (phase[k] = "sleep" /\ session = "open") => ENABLED Attempt(k))

\* C10 witness: of two requests of one batch, the first timed out on its first
\* attempt and sleeps before its second, the other failed to connect on its first
\* attempt and is resolved.
C10_Witness ==
    /\ N >= 2 /\ batch_size = 2 /\ pc = "gather"
    /\ phase[1] = "sleep" /\ last[1] = TimeoutError /\ attempt_number[1] = 1
    /\ phase[2] = "done" /\ last[2] = ClientError

\* C11: a physical attempt answered 401 or 403 ends its logical request with the
\* exception leaving the transport call: the request never returns a value (no
\* not-fetched marker, no empty result), logs no warning and starts no further
\* attempt, at whatever attempt the answer came; the operation holding it cannot
\* return, it can only raise.
C11_FatalNotRetried ==
    /\ [][\A k \in Pos :
            (\E o \in FatalOutcomes : Ended(k, o)) =>
               /\ phase'[k] = "fatal"
               /\ resp'[k] = Unset
               /\ warns'[k] = warns[k]]_vars
    /\ [][\A k \in Pos :
            phase[k] = "fatal" =>
               /\ phase'[k] = "fatal"
               /\ resp'[k] = Unset
               /\ attempt_number'[k] = 0]_vars
    /\ [](\A k \in Pos :
            phase[k] = "fatal" =>
               /\ last[k] \in FatalOutcomes
               /\ ~ ENABLED Attempt(k)
               /\ resp[k] = Unset
               /\ \A r \in Elems(all_results) : r.src # k
               /\ pc # "returned" /\ result = NoResult)

\* C11 witness: the only attempt of the first request was answered 401; the
\* request is over without a value and the operation raised.
C11_Witness ==
    /\ pc = "raised"
    /\ phase[1] = "fatal" /\ last[1] = ResponseError(401)
    /\ resp[1] = Unset /\ warns[1] = 0

\* C12: a physical attempt answered 400 (a 4xx other than 401, 403, 404, 429)
\* resolves its request with that attempt and one warning: to the identifier of
\* its path when the request is identifier-keyed (the entry that goes to the
\* not-fetched list), to None (no page) otherwise.
C12_Claim ==
    [][\A k \in Pos :
          Ended(k, ResponseError(400)) =>
             /\ phase'[k] = "done"
             /\ warns'[k] = warns[k] + 1
             /\ resp'[k] = (IF is_by_id THEN IntVal(movie_ids[k]) ELSE None)]_vars

\* C13: a request whose fifth attempt ends in a retryable failure resolves, with
\* one warning and no exception, to the value a request answered 400 resolves
\* to; gather hands it on like every other failure: an identifier-keyed one as
\* an entry of the not-fetched list, a page request as no page; the operation
\* raises only for an authorization error.
C13_Exhausted ==
    /\ [][\A k \in Pos :
            (attempt_number[k] = MaxAttempts /\ \E o \in RetryableOutcomes : Ended(k, o)) =>
               /\ phase'[k] = "done"
               /\ resp'[k] = fetch_data_value(ResponseError(400), task_details[k], k, is_by_id)
               /\ warns'[k] = warns[k] + fetch_data_warnings(ResponseError(400))]_vars
    /\ [](pc = "raised" => \E k \in Pos : GotFatal(k))
    /\ [](pc = "returned" =>
            \A k \in Pos :
               resp[k].t # "dict" =>
                  /\ \A r \in Elems(result.fetched) : r.src # k
                  /\ is_by_id => resp[k] \in Elems(result.not_fetched)
                  /\ ~ is_by_id => result.not_fetched = <<>>)

\* C13 witness: of two identifier-keyed requests of one batch the first was
\* answered 503 five times and the second 400 once; both resolved to the same
\* value with one warning each.
C13_Witness ==
    /\ pc = "gather" /\ is_by_id /\ N = 2 /\ batch_size = 2
    /\ phase[1] = "done" /\ last[1] = ResponseError(503)
    /\ phase[2] = "done" /\ last[2] = ResponseError(400)
    /\ resp[1] = resp[2] /\ warns[1] = 1 /\ warns[2] = 1

\* C14 (as claimed): the first backoff sleep of a logical request is 2 seconds,
\* every later one is double the one before it or the cap of 10 seconds, and
\* every sleep lies in [2, 10].
C14_Claim ==
    [][\A k \in Pos :
          (phase[k] = "sent" /\ phase'[k] = "sleep") =>
             /\ upcoming_sleep'[k] >= 2 /\ upcoming_sleep'[k] <= 10
             /\ upcoming_sleep[k] = 0 => upcoming_sleep'[k] = 2
             /\ upcoming_sleep[k] # 0 =>
                   upcoming_sleep'[k] = Min2(2 * upcoming_sleep[k], 10)]_vars

\* C14 (amended): the sleeps after the first, second, third and fourth attempt
\* are 2, 2, 4 and 8 seconds: the first sleep is 2 seconds, the second equals the
\* first, the later ones double; every sleep lies in [2, 10] and the cap of 10
\* seconds is not reached within 5 attempts.
C14_Waits ==
    /\ [][\A k \in Pos :
            (phase[k] = "sent" /\ phase'[k] = "sleep") =>
               /\ attempt_number[k] \in 1..4
               /\ upcoming_sleep'[k] = <<2, 2, 4, 8>>[attempt_number[k]]
               /\ upcoming_sleep[k] = 0 <=> attempt_number[k] = 1]_vars
    /\ [](\A k \in Pos :
            /\ phase[k] = "sleep" => (upcoming_sleep[k] >= 2 /\ upcoming_sleep[k] < 10)
            /\ upcoming_sleep[k] # 0 => phase[k] \in {"sleep", "sent", "crashed"})

\* C14 witness: a request sleeps after its second failed attempt, for 2 seconds
\* as after its first.
C14_Witness ==
    /\ phase[1] = "sleep" /\ attempt_number[1] = 2 /\ upcoming_sleep[1] = 2
    /\ last[1] = ResponseError(429)

\* the logical requests that are created and have not reached their final outcome
Unresolved == {k \in Pos : phase[k] \in {"new", "sent", "sleep"}}

\* C15: the batches of an operation never overlap.  A batch is handed to
\* _batch_fetch only when every request of every earlier batch is resolved for
\* good (all its attempts and backoff sleeps are over); so every unresolved
\* request belongs to the one running batch, the requests of later batches are
\* not yet created, and at most batch_size requests are unresolved at any time.
C15_NoOverlap ==
    /\ [][Len(batches') > Len(batches) =>
             /\ Len(batches') = Len(batches) + 1
             /\ \A k \in Pos : k <= Len(batches) * batch_size =>
                   (phase[k] = "done" /\ phase'[k] = "done" /\ attempt_number[k] = 0)
             /\ \A k \in Pos : k > Len(batches) * batch_size => phase[k] = "idle"]_vars
    /\ [](/\ Unresolved \subseteq Current
          /\ Cardinality(Unresolved) <= batch_size
          /\ \A k \in Pos :
                /\ (k <= i /\ pc \in {"gather", "raised"}) => phase[k] = "done"
                /\ k > i + batch_size => (phase[k] = "idle" /\ logical[k] = 0))

\* C15 witness: the second batch runs (its request sleeps between two attempts)
\* after both requests of the first batch were resolved.
C15_Witness ==
    /\ pc = "gather" /\ N = 3 /\ batch_size = 2 /\ Len(batches) = 2
    /\ phase[1] = "done" /\ phase[2] = "done"
    /\ phase[3] = "sleep" /\ attempt_number[3] = 2

\* C16: a page fetch has one task per page of first_page..last_page, in
\* increasing page order, exactly one when last_page is None; no page ever gets
\* a second logical request.  When it returns, every page had one logical
\* request and the result holds exactly the pages that resolved to a page
\* object, each once, in increasing page number whatever the order the
\* requests finished in; a failed page is absent.  It raises only for a request
\* answered 401 or 403.
C16_Pager ==
    ~ is_by_id =>
       /\ N = (IF last_page = <<>> THEN 1
               ELSE IF last_page[1] >= first_page THEN last_page[1] - first_page + 1 ELSE 0)
       /\ \A k \in Pos : task_details[k] = Task(PopularPath, first_page + k - 1)
       /\ \A k \in Pos : logical[k] <= 1
       /\ pc = "raised" => \E k \in Pos : GotFatal(k)
       /\ pc = "returned" =>
             LET f == result.fetched
             IN  /\ \A k \in Pos : logical[k] = 1
                 /\ result.not_fetched = <<>>
                 /\ \A a, b \in 1..Len(f) : a < b => f[a].v < f[b].v
                 /\ \A a \in 1..Len(f) :
                       /\ f[a].src \in Pos
                       /\ f[a] = resp[f[a].src]
                       /\ f[a] = DictVal(first_page + f[a].src - 1, f[a].src)
                 /\ \A k \in Pos : resp[k].t = "dict" <=> resp[k] \in Elems(f)
                 /\ Len(f) = Cardinality({k \in Pos : resp[k].t = "dict"})

\* C16 witness: pages 2..4 were asked for in batches of two; page 3 failed and
\* the result is page 2 followed by page 4.
C16_Witness ==
    /\ pc = "returned" /\ ~ is_by_id /\ batch_size = 2
    /\ first_page = 2 /\ last_page = <<4>>
    /\ resp[2].t = "None"
    /\ result.fetched = <<DictVal(2, 1), DictVal(4, 3)>>

\* the step is a discovery call that ends without a usable total_pages and
\* without the authorization error
DiscoveryFails ==
    /\ cpc = "loop" /\ Len(queried') > Len(queried)
    /\ cpc' # "data" /\ raised_exc' # "ClientResponseError"

\* C17: a discovery call that yields no page, or a page without total_pages,
\* raises nothing: one warning is logged, the identifier set is left as it is,
\* and the call goes on to its next iteration or returns.
C17_Claim ==
    [][DiscoveryFails =>
          /\ raised_exc' = "none"
          /\ cpc' \in {"loop", "returned"}
          /\ changes_warnings' = changes_warnings + 1
          /\ ids' = ids]_vars

\* C18: the i-th discovery call of a call of fetch_changed_ids (i = 0, 1, ...)
\* queries the date i days before the day the call started, whatever the
\* earlier discovery calls ended in; no date is queried twice.
C18_Claim ==
    \A j \in 1..Len(queried) : queried[j] = Today - (j - 1)

\* C19: of two calls made on the same day against the same change log, with the
\* same ids_type and no failed request, the one with more days returns a
\* superset of the other's identifiers; one more day moves the returned date
\* back by exactly one day, days = 3 against days = 1 by exactly two.
C19_Monotone ==
    \A a, b \in 1..Len(returns) :
       (returns[a].ids_type = returns[b].ids_type /\ returns[a].days <= returns[b].days) =>
          /\ returns[a].ids \subseteq returns[b].ids
          /\ returns[a].days >= 1 =>
                returns[b].earliest_date
                   = returns[a].earliest_date - (returns[b].days - returns[a].days)
          /\ (returns[a].days = 1 /\ returns[b].days = 3) =>
                returns[b].earliest_date = returns[a].earliest_date - 2

\* C19 witness: fetch_changed_ids('movie', 1) and then fetch_changed_ids('movie', 3)
\* returned; the second set is strictly larger and its date two days earlier.
C19_Witness ==
    /\ Len(returns) = 2
    /\ returns[1].ids_type = "movie" /\ returns[1].days = 1
    /\ returns[2].ids_type = "movie" /\ returns[2].days = 3
    /\ returns[1].ids # {} /\ returns[1].ids # returns[2].ids
    /\ returns[1].earliest_date = Today /\ returns[2].earliest_date = Today - 2

\* C20: the date a call with days >= 1 returns is the date its last iteration
\* queried, whatever the discovery calls ended in.
C20_Claim ==
    (cpc = "returned" /\ days >= 1) =>
       returns[Len(returns)].earliest_date = queried[Len(queried)]

\* C21: a call of fetch_changed_ids with ids_type 'show' raises ValueError in
\* its first step, whatever days is, and has started no _fetch_pages call by
\* then (the session, the limiter and the requests are only reached through
\* _fetch_pages): no discovery, no page, no date queried.
C21_InvalidType ==
    /\ [][(cpc = "idle" /\ cpc' # "idle" /\ ids_type' = "show") =>
             /\ cpc' = "raised" /\ raised_exc' = "ValueError"
             /\ pager_calls' = <<>> /\ returns' = returns]_vars
    /\ [](raised_exc = "ValueError" <=> (cpc # "idle" /\ ids_type = "show"))
    /\ [](raised_exc = "ValueError" =>
             /\ cpc = "raised"
             /\ pager_calls = <<>> /\ finished = 0 /\ queried = <<>> /\ folded = {}
             /\ session = "none"
             /\ returns = <<>>)

\* C21 witness: fetch_changed_ids('show', days=3) raised ValueError.
C21_Witness ==
    /\ cpc = "raised" /\ raised_exc = "ValueError"
    /\ ids_type = "show" /\ days = 3 /\ pager_calls = <<>>

\* Page numbers requested by one _fetch_pages call: range(first_page, last_page + 1).
RequestedPages(c) == c.first_page..c.last_page

\* C23: every fetch of the pages of a date whose discovery reported
\* total_pages = T requests exactly the pages 1..min(T, 500), none above 500,
\* also for T = 0 (no page) and T = 501 (pages 1..500).
C23_PageCap ==
    \A n \in 1..Len(pager_calls) :
        LET c == pager_calls[n]
            T == remote_changes[c.date].total_pages
        IN  c.kind = "data" =>
                /\ n > 1 /\ pager_calls[n - 1] = [kind |-> "discovery", date |-> c.date,
                                                  first_page |-> 1, last_page |-> 1]
                /\ RequestedPages(c) = 1..(IF T < 500 THEN T ELSE 500)
                /\ \A p \in RequestedPages(c) : p <= 500
                /\ \A q \in folded : q[1] = c.date => q[2] \in RequestedPages(c)

\* C23 witness: the discovery of today reported 501 pages, pages 1..500 were
\* requested and the fetch is over.
C23_Witness ==
    /\ cpc = "returned"
    /\ \E n \in 1..Len(pager_calls) :
          /\ pager_calls[n].kind = "data"
          /\ remote_changes[pager_calls[n].date].total_pages = 501
          /\ RequestedPages(pager_calls[n]) = 1..500
    /\ <<Today, 2>> \in folded

\* Entries of the pages of the running call that came back from the fetch of
\* the pages of their date.
FoldedEntries ==
    UNION {remote_changes[d].pages[p] :
             <<d, p>> \in {q \in Dates \X (1..2) :
                              q \in folded /\ q[2] <= Len(remote_changes[q[1]].pages)}}

\* C24: for 'movie' the set holds exactly the ids of the entries not flagged
\* adult on the pages that came back from the fetch of the pages of a date
\* the call went through, for 'person' exactly the ids of all entries on those
\* pages; the returned set is that set, and every such date is within the
\* returned range.
C24_ReturnedIds ==
    /\ ids_type = "movie" /\ cpc # "idle" =>
          ids = {e.id : e \in {x \in FoldedEntries : ~ x.adult}}
    /\ ids_type = "person" /\ cpc # "idle" =>
          ids = {e.id : e \in FoldedEntries}
    /\ cpc = "returned" =>
          /\ returns[Len(returns)].ids = ids
          /\ \A q \in folded : returns[Len(returns)].earliest_date <= q[1] /\ q[1] <= Today

\* C24 witness: a 'movie' call returned after page 2 of today came back and
\* page 1 did not: the non-adult id of page 2 is in the set, its adult id and
\* the id of page 1 are not.
C24_Witness ==
    /\ cpc = "returned" /\ ids_type = "movie" /\ days = 1
    /\ <<Today, 2>> \in folded /\ <<Today, 1>> \notin folded
    /\ 1 \in ids /\ Today \notin ids /\ (100 + Today) \notin ids

\* C28: the _fetch_pages calls of one fetch_changed_ids call run one after the
\* other: a call starts only in the step that ends the one before it, the
\* fetch of the pages of a date directly follows the finished discovery of
\* that date, and the cursor moves (by one day) only in the step that ends
\* the fetch of the pages, before the discovery of the day before starts.
C28_Sequential ==
    /\ [](/\ Len(pager_calls) - finished \in {0, 1}
          /\ (cpc \in {"loop", "data"} <=> Len(pager_calls) = finished + 1)
          /\ \A n \in 1..Len(pager_calls) :
                /\ pager_calls[n].kind = "data" =>
                      /\ n > 1
                      /\ pager_calls[n - 1].kind = "discovery"
                      /\ pager_calls[n - 1].date = pager_calls[n].date
                /\ (pager_calls[n].kind = "discovery" /\ n > 1) =>
                      pager_calls[n].date =
                          IF pager_calls[n - 1].kind = "data"
                          THEN pager_calls[n - 1].date - 1
                          ELSE pager_calls[n - 1].date
                /\ (n = Len(pager_calls) /\ cpc \in {"loop", "data"}) =>
                      pager_calls[n].date = cur_date)
    /\ [][(cpc \in {"loop", "data"} /\ Len(pager_calls') > Len(pager_calls)) =>
             /\ finished = Len(pager_calls) - 1
             /\ finished' = Len(pager_calls)
             /\ Len(pager_calls') = Len(pager_calls) + 1]_vars
    /\ [][(cpc \in {"loop", "data"} /\ cur_date' # cur_date) =>
             /\ cpc = "data"
             /\ pager_calls[Len(pager_calls)].kind = "data"
             /\ finished' = Len(pager_calls)
             /\ cur_date' = cur_date - 1]_vars

\* C28 witness: a call over two days returned after the discovery and the
\* fetch of the pages of today and then of yesterday.
C28_Witness ==
    /\ cpc = "returned" /\ days = 2 /\ finished = 4
    /\ Len(pager_calls) = 4
    /\ pager_calls[2].kind = "data" /\ pager_calls[2].date = Today
    /\ pager_calls[3].kind = "discovery" /\ pager_calls[3].date = Today - 1
    /\ pager_calls[4].kind = "data" /\ pager_calls[4].date = Today - 1

\* C30 (as claimed): when the call has returned, every date from the returned
\* earliest date up to the start date had a discovery with total_pages and
\* every one of its min(total_pages, 500) pages came back and was folded into
\* the set.
C30_Claim ==
    cpc = "returned" =>
        \A d \in Dates :
            (returns[Len(returns)].earliest_date <= d /\ d <= Today) =>
                /\ \E n \in 1..Len(pager_calls) :
                      pager_calls[n].kind = "data" /\ pager_calls[n].date = d
                /\ \A p \in 1..(IF remote_changes[d].total_pages < 500
                                THEN remote_changes[d].total_pages ELSE 500) :
                      <<d, p>> \in folded

\* Positions whose request ended without a record or page.
NotFetchedPos == {k \in Pos : phase[k] = "done" /\ resp[k].t # "dict"}

C26_LimiterEachAttempt ==
    /\ [][\A k \in Pos :
            (phase[k] # "sent" /\ phase'[k] = "sent") =>
               /\ limiter_acquired'[k] = limiter_acquired[k] + 1
               /\ attempt_number'[k] = attempt_number[k] + 1]_vars
    /\ [](\A k \in Pos :
            /\ limiter_acquired[k] = attempt_number[k]
            /\ phase[k] \in {"sent", "sleep"} => limiter_acquired[k] >= 1)

\* C26 witness: the third attempt of a request is sent after three entries of
\* the limiter.
C26_Witness ==
    /\ phase[1] = "sent" /\ attempt_number[1] = 3 /\ limiter_acquired[1] = 3

\* C29 (as claimed): when an operation has returned or has raised the
\* authorization error, none of its requests is still new, sent or sleeping,
\* and no request of it is sent afterwards.
C29_Claim ==
    /\ [](pc \in {"returned", "raised"} => Unresolved = {})
    /\ [][(pc \in {"returned", "raised"}) =>
             (\A k \in Pos : (phase'[k] = "sent") => (phase[k] = "sent"))]_vars

\* C25 (as claimed): a call of fetch_movie_by_id of the synchronous client
\* that returns returns a record; its only other outcome is the authorization
\* error.
C25_Claim ==
    /\ spc = "returned" => sync_result.t = "dict"
    /\ spc = "raised" => sync_last \in {ResponseError(401), ResponseError(403)}

\* C27 (as claimed): a call of the synchronous client whose requests were all
\* answered 503 has sent at most 5 requests, and the rate limiter has counted
\* each of them.
C27_Claim ==
    (spc # "idle" /\ sync_seen \subseteq {ResponseError(503)}) =>
        /\ sync_requests <= 5
        /\ limiter_calls = sync_requests

\* C33 (as claimed): every value fetch_changed_ids has returned carries an
\* earliest date that is not later than the day the call started on.
C33_Claim ==
    \A n \in 1..Len(returns) : returns[n].earliest_date <= Today

\* the values the requests resolved to, in input order
RespSeq == [k \in Pos |-> resp[k]]
IsDict(r) == r.t = "dict"
IsNotDict(r) == r.t # "dict"

\* C31: the pair a bulk fetch by id returns is a function of the input and of
\* the value each request resolved to, in input order, whatever the order in
\* which the requests of a batch completed: not_fetched holds the non-record
\* values in input order; fetched holds, in the input order of the first
\* record of each id, the last record of that id.
C31_OrderIndependent ==
    (pc = "returned" /\ is_by_id) =>
        LET D == SelectSeq(RespSeq, IsDict)
            firsts == {a \in 1..Len(D) : \A b \in 1..(a - 1) : D[b].v # D[a].v}
            rank(a) == Cardinality({b \in firsts : b <= a})
            lastOf(a) == CHOOSE b \in 1..Len(D) :
                            /\ D[b].v = D[a].v
                            /\ \A c \in 1..Len(D) : D[c].v = D[a].v => c <= b
        IN  /\ result.not_fetched = SelectSeq(RespSeq, IsNotDict)
            /\ Len(result.fetched) = Cardinality(firsts)
            /\ \A a \in firsts : result.fetched[rank(a)] = D[lastOf(a)]

\* C31 witness: in a batch of two the request of the second identifier
\* completed before the request of the first, and the returned records are in
\* input order.
C31_Witness ==
    /\ pc = "returned" /\ is_by_id /\ batch_size = 2
    /\ movie_ids = <<1, 12>> /\ completed = <<2, 1>>
    /\ Len(result.fetched) = 2
    /\ result.fetched[1].v = 1 /\ result.fetched[2].v = 12

\* C32 (as claimed): a request is sent only while the session is open; an
\* operation starts by creating a session; once it has returned or raised its
\* session is closed; and every request of the operation is sent on the
\* session the operation created (the first the client created), never on
\* the session of a later operation.
C32_Claim ==
    /\ [][\A k \in Pos :
            (phase'[k] = "sent" /\ phase[k] # "sent") =>
               /\ session = "open"
               /\ session_no = 1]_vars
    /\ [][(pc = "init" /\ pc' # "init") =>
             (session = "none" /\ session_no' = session_no + 1)]_vars
    /\ [](pc \in {"returned", "raised", "next_ended"} => session = "closed")

====
